---- MODULE Spec2Model ----
(***************************************************************************)
(* OrchidJS.PageController (shared/js/page_controller.js): panel           *)
(* navigation.  The document (panels, activation buttons, controller       *)
(* paths) is fixed; the URL, the initially visible panel, the initially    *)
(* selected buttons and the globals present in `window` are chosen in      *)
(* Init.  Every action is one DOM event handler run to completion.         *)
(***************************************************************************)
EXTENDS Integers, Sequences, FiniteSets, TLC

\* ---------------------------------------------------------------- bounds
NumPanels == 11        \* panels in the document, indices 0 .. NumPanels-1
MaxHistory == 3        \* history.pushState calls explored
MaxBindings == 2       \* listener sets bound to a button (init + refresh)
MaxScrollSteps == 20   \* scroll offsets explored, in steps of 20 units
BezierDen == 4         \* cubicBezier is called at t = 0/4 .. 4/4
MaxControl == 1        \* control values of cubicBezier: 0 .. 1

\* ------------------------------------------------------ program constants
NativeThreshold == 80      \* line 188
SmoothThreshold == 40      \* line 171
OverscrollThreshold == 300 \* line 153

\* -------------------------------------------------------------- document
Panels == 0 .. (NumPanels - 1)
NoElement == -1        \* null, as returned by getElementById / querySelector
Null == "<null>"       \* URLSearchParams.get of an absent parameter
Undefined == "undefined"   \* 'a'.split('.')[1], as a property key
AnonPanel == 3         \* a panel without an id attribute

\* panel.id, in document order
PanelIds == [p \in Panels |-> IF p = AnonPanel THEN "" ELSE "p" \o ToString(p)]
PanelId(p) == PanelIds[p]

LastPanelId == PanelId(NumPanels - 1)

\* button.dataset.pageId of the [data-page-id] elements, in document order
ButtonTargets == <<"p0", "p1", "p2", "p1", LastPanelId, "ghost">>
Buttons == 1 .. Len(ButtonTargets)

\* targetPanel.dataset.previousPageId ("" when the attribute is absent)
PreviousPageId(p) == IF p = 2 THEN "p0" ELSE ""

\* panel.dataset.pageObject, already split on '.' (<<>> when absent)
PageObject(p) ==
  CASE p = 1 -> <<"Store", "Library">>
    [] p = 2 -> <<"Settings">>
    [] OTHER -> <<>>

\* the controller objects a path of the document can name
Controllers == {"Store.Library", "Settings"}
NoObject == "<none>"

\* the sets of global names the page may have defined; a global that happens
\* to carry the member's name is considered next to the member itself
WindowConfigs ==
  {{}, {"Store"}, {"Settings"}, {"Store", "Store.Library"},
   {"Store", "Store.Library", "Settings"},
   {"Store", "Store.Library", "Library", "Settings"}}

StartPanels == {NoElement, 0, 1, AnonPanel}
UrlValues == {Null, "p1", "ghost"}
Keys == {"Escape", "a"}
\* which lifecycle method of the controllers throws during one handler
Throws == {t \in [hide : BOOLEAN, init : BOOLEAN, show : BOOLEAN] :
             Cardinality({m \in {"hide", "init", "show"} : t[m]}) <= 1}

VARIABLES
  pc,               \* "start" before PageController.init(), "ready" after
  loadListener,     \* <<from, to>> of the pending 'load' listener, or <<>>
  previousPanelId,
  currentPanelId,
  isKeyDown,
  index,            \* panel.dataset.index: a string of decimal digits
  visible,          \* panels carrying class `visible`
  previous,         \* panels carrying class `previous`
  next,             \* panels carrying class `next`
  selected,         \* buttons carrying class `selected`
  urlPanel,         \* the `panel` query parameter of location
  historyLength,    \* entries pushed with history.pushState
  window,           \* names defined on the global object
  isLoaded,         \* controllers whose isLoaded is true
  initCount,        \* init() invocations per controller
  calls,            \* lifecycle calls of the last handler, in order
  raised,           \* error the last handler let escape, or "none"
  last,             \* the last handler and its togglePanelVisibility call
  startVisible,     \* the panel marked visible in the markup, or NoElement
  escapeKey,        \* "fired" from an Escape keydown that ran a back
                    \* transition through line 245 until the keyup of
                    \* Escape, "up" otherwise
  bindings,         \* times the button listeners were bound (init, refresh)
  progress,         \* --panel-progress of a panel with a content section
  progressExpo,     \* --panel-progress-expo of that panel
  progressOverscroll,   \* --panel-progress-overscroll of that panel
  bezier            \* the last cubicBezier call and the value it returned

vars == <<pc, loadListener, previousPanelId, currentPanelId, isKeyDown, index,
          visible, previous, next, selected, urlPanel, historyLength, window,
          isLoaded, initCount, calls, raised, last, startVisible, escapeKey,
          bindings, progress, progressExpo, progressOverscroll, bezier>>

\* the style properties written by the scroll handlers, and the easing call
scrollVars == <<progress, progressExpo, progressOverscroll, bezier>>

\* ------------------------------------------------------------ DOM helpers
\* document.getElementById
getElementById(id) ==
  IF \E p \in Panels : PanelId(p) = id /\ id # ""
    THEN CHOOSE p \in Panels : PanelId(p) = id
    ELSE NoElement

Min(S) == CHOOSE m \in S : \A n \in S : m <= n

\* document.querySelector('[role="panel"].visible'): first in document order
querySelectorVisible(vis) == IF vis = {} THEN NoElement ELSE Min(vis)

\* the [data-page-id] elements whose pageId is id
ButtonsFor(id) == {b \in Buttons : ButtonTargets[b] = id}

\* classList.toggle(cls): flips membership
ClassToggle(set, p) == IF p \in set THEN set \ {p} ELSE set \cup {p}

\* classList.add where the code calls classList.toggle(name, force)
ClassAdd(set, p, force) == IF force THEN set \cup {p} ELSE set

\* classList.toggle(cls, force): adds when force, removes otherwise
ClassForce(set, p, force) == IF force THEN set \cup {p} ELSE set \ {p}

\* String(index): the decimal digits of a non-negative integer
RECURSIVE Digits(_)
Digits(n) == IF n < 10 THEN <<n>> ELSE Append(Digits(n \div 10), n % 10)

\* panel.dataset.index = index, lines 52-55
IndexStrings == [p \in Panels |-> Digits(p)]

\* a < b for strings (lexicographic on code units)
RECURSIVE StrLess(_, _)
StrLess(a, b) ==
  IF b = <<>> THEN FALSE
  ELSE IF a = <<>> THEN TRUE
  ELSE IF Head(a) < Head(b) THEN TRUE
  ELSE IF Head(a) > Head(b) THEN FALSE
  ELSE StrLess(Tail(a), Tail(b))

\* selectedPanel.dataset.index <= targetPanel.dataset.index
IndexLeq(a, b) == a = b \/ StrLess(a, b)

\* selectedPanel.dataset.index >= targetPanel.dataset.index
IndexGeq(a, b) == a = b \/ StrLess(b, a)

\* `name in window`; the global object always has the property "undefined"
InWindow(w, name) == name \in (w \cup {Undefined})

Bootstrap(path) == path[1]
ObjectName(path) == IF Len(path) > 1 THEN path[2] ELSE Undefined

\* window[bootstrap][object] or window[bootstrap]: the controller, if any
Resolve(w, path) ==
  LET name == IF Len(path) > 1 THEN path[1] \o "." \o path[2] ELSE path[1]
  IN IF name \in w /\ name \in Controllers THEN name ELSE NoObject

\* the controller a panel's data-page-object names, if it exists
ControllerOf(p) ==
  IF PageObject(p) = <<>> THEN NoObject ELSE Resolve(window, PageObject(p))

\* the element with this id is a panel whose controller exists
HasController(id) ==
  getElementById(id) # NoElement /\ ControllerOf(getElementById(id)) # NoObject

\* what the controllers' methods can do during a transition from one id to
\* another: only a method of an existing controller can throw
ThrowsFor(selectedPanelId, targetPanelId) ==
  {t \in Throws : /\ t.hide => HasController(selectedPanelId)
                  /\ (t.init \/ t.show) => HasController(targetPanelId)}

\* ------------------------------------------------------ number arithmetic
\* A JavaScript number is kept as an exact fraction <<numerator, denominator>>
\* in lowest terms with a positive denominator.
Abs(n) == IF n < 0 THEN -n ELSE n

RECURSIVE Gcd(_, _)
Gcd(a, b) == IF b = 0 THEN a ELSE Gcd(b, a % b)

Num(n, d) ==
  LET g == Gcd(Abs(n), Abs(d))
  IN IF d < 0 THEN <<(-n) \div g, (-d) \div g>> ELSE <<n \div g, d \div g>>

Whole(n) == <<n, 1>>
Mul(x, y) == Num(x[1] * y[1], x[2] * y[2])
Add(x, y) ==
  LET g == Gcd(x[2], y[2])
  IN Num(x[1] * (y[2] \div g) + y[1] * (x[2] \div g), (x[2] \div g) * y[2])
Sub(x, y) == Add(x, <<-y[1], y[2]>>)
Leq(x, y) == x[1] * y[2] <= y[1] * x[2]

\* ----------------------------------------------------- progress tracking
\* lines 152-156, 170-174, 187-191: progress = position / threshold, set to
\* 1 when it is >= 1
ProgressOf(scrollPosition, threshold) ==
  LET p == Num(scrollPosition, threshold)
  IN IF Leq(Whole(1), p) THEN Whole(1) ELSE p

\* the curve of lines 220-230 with t and 1 - t exchanged
cubicBezierReversed(t, p0, p1, p2, p3) ==
  LET u == t
      tt == Mul(Sub(Whole(1), t), Sub(Whole(1), t))
      uu == Mul(u, u)
      uuu == Mul(uu, u)
      ttt == Mul(tt, Sub(Whole(1), t))
  IN Add(Add(Add(Mul(uuu, Whole(p0)),
                 Mul(Mul(Mul(Whole(3), uu), Sub(Whole(1), t)), Whole(p1))),
             Mul(Mul(Mul(Whole(3), u), tt), Whole(p2))),
         Mul(ttt, Whole(p3)))

\* cubicBezier, lines 220-230
cubicBezier(t, p0, p1, p2, p3) ==
  LET u == Sub(Whole(1), t)
      tt == Mul(t, t)
      uu == Mul(u, u)
      uuu == Mul(uu, u)
      ttt == Mul(tt, t)
  IN Add(Add(Add(Mul(uuu, Whole(p0)),
                 Mul(Mul(Mul(Whole(3), uu), t), Whole(p1))),
             Mul(Mul(Mul(Whole(3), u), tt), Whole(p2))),
         Mul(ttt, Whole(p3)))

\* the record of one cubicBezier call
BezierCall(t, p) ==
  [t |-> t, p |-> p, value |-> cubicBezier(t, p[1], p[2], p[3], p[4])]

\* ------------------------------------------------- togglePanelVisibility
\* The part of the program state a transition reads and writes.
Snapshot ==
  [previousPanelId |-> previousPanelId, currentPanelId |-> currentPanelId,
   visible |-> visible, previous |-> previous, next |-> next,
   urlPanel |-> urlPanel, historyLength |-> historyLength,
   isLoaded |-> isLoaded, initCount |-> initCount,
   calls |-> <<>>, raised |-> "none", outcome |-> "none"]

\* a pointer that keeps the first previous id it was given
SetPointerKeepPrevious(s, selectedPanelId, targetPanelId) ==
  [s EXCEPT !.previousPanelId =
                IF @ # "" THEN @
                ELSE IF selectedPanelId # "" THEN selectedPanelId ELSE "root",
            !.currentPanelId = targetPanelId]

\* line 284 without the assignment of line 285
SetPointerKeepCurrent(s, selectedPanelId, targetPanelId) ==
  [s EXCEPT !.previousPanelId =
                IF selectedPanelId # "" THEN selectedPanelId ELSE "root"]

\* lines 283-288: the navigation pointer
SetPointer(s, selectedPanelId, targetPanelId) ==
  [s EXCEPT !.previousPanelId =
                IF selectedPanelId # "" THEN selectedPanelId ELSE "root",
            !.currentPanelId = targetPanelId]

\* a pushState that leaves the query string alone
PushStateKeepUrl(s, targetPanelId) == [s EXCEPT !.historyLength = @ + 1]

\* lines 290-292: url.searchParams.set('panel', ...); history.pushState
PushState(s, targetPanelId) ==
  [s EXCEPT !.urlPanel = targetPanelId, !.historyLength = @ + 1]

\* a transition that never reads data-previous-page-id
IgnoreOverride(s, targetPanel) == s

\* lines 301-303: the target's data-previous-page-id override
ApplyOverride(s, targetPanel) ==
  IF PreviousPageId(targetPanel) # ""
    THEN [s EXCEPT !.previousPanelId = PreviousPageId(targetPanel)]
    ELSE s

\* the toggle of line 311 without the loop of lines 305-307
ToggleVisibleOnly(vis, targetPanel) == ClassToggle(vis, targetPanel)

\* lines 305-307 and 311: strip `visible` everywhere, toggle it on the target
SwapVisible(vis, targetPanel) == ClassToggle(vis \ vis, targetPanel)

\* lines 308-313 without the `visible` changes of lines 305-307 and 311
SetClassesKeepVisible(s, selectedPanel, targetPanel) ==
  LET le == IndexLeq(index[selectedPanel], index[targetPanel])
      ge == IndexGeq(index[selectedPanel], index[targetPanel])
  IN [s EXCEPT
        !.previous = ClassForce(ClassForce(@, selectedPanel, le), targetPanel, le),
        !.next = ClassForce(ClassForce(@, selectedPanel, ge), targetPanel, ge)]

\* lines 308-313: visible / previous / next classes of both panels
SetClasses(s, selectedPanel, targetPanel) ==
  LET le == IndexLeq(index[selectedPanel], index[targetPanel])
      ge == IndexGeq(index[selectedPanel], index[targetPanel])
  IN [s EXCEPT
        !.visible = SwapVisible(@, targetPanel),
        !.previous = ClassForce(ClassForce(@, selectedPanel, le), targetPanel, le),
        !.next = ClassForce(ClassForce(@, selectedPanel, ge), targetPanel, ge)]

\* line 320: the guard in front of the source controller's hide()
HideGuard(w, path) == InWindow(w, ObjectName(path))

\* lines 315-331: hide() on the source panel's controller.  A TypeError of
\* the member lookup and an error thrown by hide() end in the catch block.
HideSource(s, selectedPanel, throws) ==
  LET path == PageObject(selectedPanel)
  IN IF path = <<>> THEN s
     ELSE IF ~HideGuard(window, path) THEN s
     ELSE IF Resolve(window, path) = NoObject THEN s
     ELSE [s EXCEPT !.calls = Append(@, <<"hide", Resolve(window, path)>>)]

\* line 338: the guard in front of the target controller's init()/show()
ShowGuard(w, path) == InWindow(w, Bootstrap(path))

\* a transition that goes to show() without the block of lines 340-349
InitTargetSkipped(s, obj, throws) == s

\* lines 340-349: init() once per controller; an error thrown by init()
\* leaves the function before isLoaded is set
InitTarget(s, obj, throws) ==
  IF obj = NoObject \/ obj \in s.isLoaded THEN s
  ELSE LET called == [s EXCEPT !.calls = Append(@, <<"init", obj>>),
                               !.initCount[obj] = @ + 1]
       IN IF throws.init
            THEN [called EXCEPT !.raised = "init", !.outcome = "threw"]
            ELSE [called EXCEPT !.isLoaded = @ \cup {obj}]

\* show() called without the try block of lines 351-359
ShowCallUncaught(s, obj, throws) ==
  IF obj = NoObject \/ throws.show
    THEN [s EXCEPT !.raised = "TypeError", !.outcome = "threw"]
    ELSE [s EXCEPT !.calls = Append(@, <<"show", obj>>)]

\* lines 351-359: show(); a TypeError of the member lookup and an error
\* thrown by show() end in the catch block
ShowCall(s, obj, throws) ==
  IF obj = NoObject THEN s
  ELSE [s EXCEPT !.calls = Append(@, <<"show", obj>>)]

\* lines 333-361: init()/show() on the target panel's controller
ShowTarget(s, targetPanel, throws) ==
  LET path == PageObject(targetPanel)
  IN IF path = <<>> THEN s
     ELSE IF ~ShowGuard(window, path) THEN s
     ELSE LET obj == Resolve(window, path)
              s1 == InitTarget(s, obj, throws)
          IN IF s1.raised # "none" THEN s1 ELSE ShowCall(s1, obj, throws)

\* lines 283-362, once the two ids are known to differ
Transition(s, selectedPanelId, targetPanelId, throws) ==
  LET s1 == PushState(SetPointer(s, selectedPanelId, targetPanelId),
                      targetPanelId)
      selectedPanel == getElementById(selectedPanelId)
      targetPanel == getElementById(targetPanelId)
  IN IF selectedPanel = NoElement THEN [s1 EXCEPT !.outcome = "aborted"]
     ELSE IF targetPanel = NoElement
       \* line 301: targetPanel.dataset of null
       THEN [s1 EXCEPT !.raised = "TypeError", !.outcome = "threw"]
     ELSE
       LET s2 == SetClasses(ApplyOverride(s1, targetPanel),
                            selectedPanel, targetPanel)
           s3 == HideSource(s2, selectedPanel, throws)
           s4 == ShowTarget(s3, targetPanel, throws)
       IN IF s4.raised # "none" THEN s4
          ELSE [s4 EXCEPT !.outcome = "completed"]

\* togglePanelVisibility without the comparison of line 283
toggleWithoutIdCheck(s, selectedPanelId, targetPanelId, throws) ==
  Transition(s, selectedPanelId, targetPanelId, throws)

\* lines 282-362
togglePanelVisibility(s, selectedPanelId, targetPanelId, throws) ==
  IF selectedPanelId = targetPanelId THEN [s EXCEPT !.outcome = "noop"]
  ELSE Transition(s, selectedPanelId, targetPanelId, throws)

\* the variables a transition writes, taken from its result
Commit(s) ==
  /\ previousPanelId' = s.previousPanelId
  /\ currentPanelId' = s.currentPanelId
  /\ visible' = s.visible
  /\ previous' = s.previous
  /\ next' = s.next
  /\ urlPanel' = s.urlPanel
  /\ historyLength' = s.historyLength
  /\ isLoaded' = s.isLoaded
  /\ initCount' = s.initCount
  /\ calls' = s.calls
  /\ raised' = s.raised

\* a style property that was never set, a call that was never made
Unset == <<>>

NoCall == [from |-> Null, to |-> Null, outcome |-> "none"]
Call(from, to, s) == [from |-> from, to |-> to, outcome |-> s.outcome]

\* ------------------------------------------------------------------ Init
InitIn(starts, urls, windows) ==
  /\ pc = "start"
  /\ loadListener = <<>>
  /\ previousPanelId = ""
  /\ currentPanelId = ""
  /\ isKeyDown = FALSE
  /\ index = [p \in Panels |-> <<>>]
  /\ startVisible \in starts
  /\ visible = IF startVisible = NoElement THEN {} ELSE {startVisible}
  /\ previous = {}
  /\ next = {}
  /\ selected = UNION {ButtonsFor(PanelId(p)) : p \in visible}
  /\ urlPanel \in urls
  /\ historyLength = 0
  /\ window \in windows
  /\ isLoaded = {}
  /\ initCount = [o \in Controllers |-> 0]
  /\ calls = <<>>
  /\ raised = "none"
  /\ last = [event |-> "none", key |-> Null, call |-> NoCall]
  /\ escapeKey = "up"
  /\ bindings = 0
  /\ progress = Unset
  /\ progressExpo = Unset
  /\ progressOverscroll = Unset
  /\ bezier = Unset

Init == InitIn(StartPanels, UrlValues, WindowConfigs)

\* --------------------------------------------------------------- actions
\* PageController.init, lines 30-86
PageInit ==
  /\ pc = "start"
  /\ pc' = "ready"
  /\ index' = IndexStrings
  /\ next' = next \cup Panels
  /\ LET panelValue == urlPanel
         selectedPanel == querySelectorVisible(visible)
     IN IF panelValue = Null \/ panelValue = ""
          THEN /\ raised' = "none"
               /\ UNCHANGED <<loadListener, selected>>
          ELSE IF selectedPanel = NoElement
            \* line 67: selectedPanel.id of null
            THEN /\ raised' = "TypeError"
                 /\ UNCHANGED <<loadListener, selected>>
          ELSE IF PanelId(selectedPanel) # panelValue
            THEN /\ raised' = "none"
                 /\ loadListener' = <<PanelId(selectedPanel), panelValue>>
                 /\ selected' = ButtonsFor(panelValue)
            ELSE /\ raised' = "none"
                 /\ UNCHANGED <<loadListener, selected>>
  /\ calls' = <<>>
  /\ last' = [event |-> "init", key |-> Null, call |-> NoCall]
  /\ bindings' = 1
  /\ UNCHANGED <<previousPanelId, currentPanelId, isKeyDown, visible, previous,
                 urlPanel, historyLength, window, isLoaded, initCount,
                 startVisible, escapeKey, scrollVars>>

\* the 'load' listener registered at lines 68-69
Load ==
  /\ pc = "ready"
  /\ loadListener # <<>>
  /\ historyLength < MaxHistory
  /\ \E throws \in ThrowsFor(loadListener[1], loadListener[2]) :
       \E s \in {togglePanelVisibility(Snapshot, loadListener[1],
                                      loadListener[2], throws)} :
          /\ Commit(s)
          /\ last' = [event |-> "load", key |-> Null,
                      call |-> Call(loadListener[1], loadListener[2], s)]
  /\ loadListener' = <<>>
  /\ UNCHANGED <<pc, isKeyDown, index, selected, window, startVisible,
                 escapeKey, bindings, scrollVars>>

\* selectedPanel.id of line 279 ("" also when there is no visible panel)
VisibleId ==
  IF visible = {} THEN "" ELSE PanelId(querySelectorVisible(visible))

\* handlePageButtonClick, lines 254-280, run once in state s
HandleClick(s, button, throws) ==
  LET id == ButtonTargets[button]
      selectedPanel == querySelectorVisible(s.visible)
  IN IF selectedPanel = NoElement
       \* line 279: selectedPanel.id of null
       THEN [state |-> [s EXCEPT !.raised = "TypeError"], call |-> NoCall]
       ELSE LET t == togglePanelVisibility(s, PanelId(selectedPanel), id,
                                           throws)
            IN [state |-> t, call |-> Call(PanelId(selectedPanel), id, t)]

\* one click or Enter keyup delivered to the n listeners bound to the button
\* (lines 42-49 and 96-104); the call reported is the first listener's
RECURSIVE ClickResult(_, _, _, _)
ClickResult(s, button, throws, n) ==
  LET first == HandleClick(s, button, throws)
  IN IF n <= 1 THEN first
     ELSE LET rest == ClickResult([first.state EXCEPT !.raised = "none",
                                                      !.outcome = "none"],
                                  button, throws, n - 1)
          IN [state |-> [rest.state EXCEPT
                           !.raised = IF @ # "none" THEN @
                                      ELSE first.state.raised],
              call |-> first.call]

\* lines 264-277: the `selected` class after an activation
SelectButtons(sel, id) == (sel \ sel) \cup ButtonsFor(id)

\* a click on an activation button
Click(button) ==
  /\ pc = "ready"
  /\ historyLength < MaxHistory
  /\ \E throws \in ThrowsFor(VisibleId, ButtonTargets[button]) :
       \E r \in {ClickResult(Snapshot, button, throws, bindings)} :
          /\ Commit(r.state)
          /\ last' = [event |-> "click", key |-> Null, call |-> r.call]
  /\ selected' = SelectButtons(selected, ButtonTargets[button])
  /\ UNCHANGED <<pc, loadListener, isKeyDown, index, window, startVisible,
                 escapeKey, bindings, scrollVars>>

\* keyup of Enter on a focused activation button: the button's listener
\* (lines 44-48), then the document's keyup listener (line 38)
EnterKeyUp(button) ==
  /\ pc = "ready"
  /\ historyLength < MaxHistory
  /\ \E throws \in ThrowsFor(VisibleId, ButtonTargets[button]) :
       \E r \in {ClickResult(Snapshot, button, throws, bindings)} :
          /\ Commit(r.state)
          /\ last' = [event |-> "enter", key |-> "Enter", call |-> r.call]
  /\ selected' = SelectButtons(selected, ButtonTargets[button])
  /\ isKeyDown' = FALSE
  /\ UNCHANGED <<pc, loadListener, index, window, startVisible, escapeKey,
                 bindings, scrollVars>>

\* lines 238-241: querySelector('.selected') removes the class from the
\* first selected element only
ClearSelected(sel) == IF sel = {} THEN sel ELSE sel \ {Min(sel)}

\* line 233: the key-repeat guard
KeyGuard(down) == down

\* handleKeyDown, lines 232-248
KeyDown(key) ==
  /\ pc = "ready"
  /\ historyLength < MaxHistory
  /\ IF KeyGuard(isKeyDown) \/ key # "Escape"
       THEN /\ calls' = <<>>
            /\ raised' = "none"
            /\ last' = [event |-> "keydown", key |-> key, call |-> NoCall]
            /\ UNCHANGED <<previousPanelId, currentPanelId, isKeyDown, visible,
                           previous, next, selected, urlPanel, historyLength,
                           isLoaded, initCount, escapeKey>>
       ELSE /\ selected' = ClearSelected(selected)
            /\ IF previousPanelId # "" /\ currentPanelId # ""
                 THEN \E throws \in ThrowsFor(currentPanelId,
                                               previousPanelId) :
                        \E s \in {togglePanelVisibility(Snapshot,
                                   currentPanelId, previousPanelId, throws)} :
                           /\ Commit(s)
                           \* line 245 is not reached when the call throws
                           /\ isKeyDown' = (s.raised = "none")
                           /\ escapeKey' = IF s.raised = "none" THEN "fired"
                                           ELSE escapeKey
                           /\ last' = [event |-> "keydown", key |-> key,
                                       call |-> Call(currentPanelId,
                                                     previousPanelId, s)]
                 ELSE /\ calls' = <<>>
                      /\ raised' = "none"
                      /\ last' = [event |-> "keydown", key |-> key,
                                  call |-> NoCall]
                      /\ UNCHANGED <<previousPanelId, currentPanelId,
                                     isKeyDown, visible, previous, next,
                                     urlPanel, historyLength, isLoaded,
                                     initCount, escapeKey>>
  /\ UNCHANGED <<pc, loadListener, index, window, startVisible, bindings,
                 scrollVars>>

\* handleKeyUp, lines 250-252
KeyUp(key) ==
  /\ pc = "ready"
  /\ escapeKey' = IF key = "Escape" THEN "up" ELSE escapeKey
  /\ isKeyDown' = FALSE
  /\ calls' = <<>>
  /\ raised' = "none"
  /\ last' = [event |-> "keyup", key |-> key, call |-> NoCall]
  /\ UNCHANGED <<pc, loadListener, previousPanelId, currentPanelId, index,
                 visible, previous, next, selected, urlPanel, historyLength,
                 window, isLoaded, initCount, startVisible, bindings,
                 scrollVars>>

\* a page script calling OrchidJS.PageController.togglePanelVisibility
DirectToggle(selectedPanelId, targetPanelId) ==
  /\ pc = "ready"
  /\ historyLength < MaxHistory
  /\ \E throws \in ThrowsFor(selectedPanelId, targetPanelId) :
       \E s \in {togglePanelVisibility(Snapshot, selectedPanelId,
                                      targetPanelId, throws)} :
          /\ Commit(s)
          /\ last' = [event |-> "call", key |-> Null,
                      call |-> Call(selectedPanelId, targetPanelId, s)]
  /\ UNCHANGED <<pc, loadListener, isKeyDown, index, selected, window,
                 startVisible, escapeKey, bindings, scrollVars>>

\* PageController.refresh, lines 95-105: one more set of button listeners
Refresh ==
  /\ pc = "ready"
  /\ bindings < MaxBindings
  /\ bindings' = bindings + 1
  /\ calls' = <<>>
  /\ raised' = "none"
  /\ last' = [event |-> "refresh", key |-> Null, call |-> NoCall]
  /\ UNCHANGED <<pc, loadListener, previousPanelId, currentPanelId, isKeyDown,
                 index, visible, previous, next, selected, urlPanel,
                 historyLength, window, isLoaded, initCount, startVisible,
                 escapeKey, scrollVars>>

\* what a scroll handler leaves alone
ScrollFrame ==
  /\ calls' = <<>>
  /\ raised' = "none"
  /\ UNCHANGED <<pc, loadListener, previousPanelId, currentPanelId, isKeyDown,
                 index, visible, previous, next, selected, urlPanel,
                 historyLength, window, isLoaded, initCount, startVisible,
                 escapeKey, bindings>>

\* setProgress, lines 211-214
SetProgress(value) ==
  /\ progress' = value
  /\ bezier' = BezierCall(value, <<0, 0, 0, 1>>)
  /\ progressExpo' = bezier'.value

\* the content's 'scroll' listener, lines 186-197
NativeScroll(scrollTop) ==
  /\ pc = "ready"
  /\ SetProgress(ProgressOf(scrollTop, NativeThreshold))
  /\ last' = [event |-> "scroll", key |-> Null, call |-> NoCall]
  /\ UNCHANGED progressOverscroll
  /\ ScrollFrame

\* the Scrollbar listener, lines 169-182
SmoothScroll(offsetY) ==
  /\ pc = "ready"
  /\ "Scrollbar" \in window
  /\ SetProgress(ProgressOf(offsetY, SmoothThreshold))
  /\ progressOverscroll' = Whole(0)
  /\ last' = [event |-> "smooth", key |-> Null, call |-> NoCall]
  /\ ScrollFrame

\* the overscroll plugin's onScroll, lines 146-163
Overscroll(y) ==
  /\ pc = "ready"
  /\ "Scrollbar" \in window
  /\ IF y >= 0
       THEN UNCHANGED progressOverscroll
       ELSE progressOverscroll' = ProgressOf(y * (-1), OverscrollThreshold)
  /\ last' = [event |-> "overscroll", key |-> Null, call |-> NoCall]
  /\ UNCHANGED <<progress, progressExpo, bezier>>
  /\ ScrollFrame

\* a call of PageController.cubicBezier by a page script
CubicBezierCall(t, p) ==
  /\ pc = "ready"
  /\ bezier' = BezierCall(t, p)
  /\ last' = [event |-> "bezier", key |-> Null, call |-> NoCall]
  /\ UNCHANGED <<progress, progressExpo, progressOverscroll>>
  /\ ScrollFrame

\* button activations are clicks here; activations by the Enter key are
\* explored by SpecRefresh and SpecWellFormed
Next ==
  \/ PageInit
  \/ Load
  \/ \E b \in Buttons : Click(b)
  \/ \E k \in Keys : KeyDown(k)
  \/ \E k \in Keys : KeyUp(k)

Spec == Init /\ [][Next]_vars

\* the ids page scripts pass to togglePanelVisibility
ApiIds == {"", "p1", "ghost"}

NextApi ==
  \/ PageInit
  \/ Load
  \/ \E from \in ApiIds, to \in ApiIds : DirectToggle(from, to)

\* the page driven through direct calls of the exported method
SpecApi == Init /\ [][NextApi]_vars

\* button activations with listeners bound again by refresh()
NextRefresh ==
  \/ PageInit
  \/ Load
  \/ Refresh
  \/ \E b \in Buttons : Click(b)
  \/ \E b \in Buttons : EnterKeyUp(b)

SpecRefresh == Init /\ [][NextRefresh]_vars

\* a document whose button targets and URL parameter name panels and whose
\* visible panel has an id
WellFormedButtons ==
  {b \in Buttons : getElementById(ButtonTargets[b]) # NoElement}
WellFormedUrls ==
  {u \in UrlValues : u = Null \/ getElementById(u) # NoElement}
WellFormedStarts == {p \in StartPanels : p = NoElement \/ PanelId(p) # ""}

InitWellFormed == InitIn(WellFormedStarts, WellFormedUrls, WindowConfigs)

NextWellFormed ==
  \/ PageInit
  \/ Load
  \/ \E b \in WellFormedButtons : Click(b)
  \/ \E b \in WellFormedButtons : EnterKeyUp(b)
  \/ \E k \in Keys : KeyDown(k)
  \/ \E k \in Keys : KeyUp(k)

SpecWellFormed == InitWellFormed /\ [][NextWellFormed]_vars

\* scroll positions reported to the handlers
ScrollOffsets == {20 * k : k \in (-MaxScrollSteps) .. MaxScrollSteps}

\* a page with or without the smooth-scroll library
InitScroll == InitIn({0}, {Null}, {{}, {"Scrollbar"}})

NextScroll ==
  \/ PageInit
  \/ \E y \in ScrollOffsets : NativeScroll(y)
  \/ \E y \in ScrollOffsets : SmoothScroll(y)
  \/ \E y \in ScrollOffsets : Overscroll(y)

SpecScroll == InitScroll /\ [][NextScroll]_vars

\* the arguments page scripts pass to cubicBezier
BezierTimes == {Num(a, BezierDen) : a \in 0 .. BezierDen}
ControlValues == 0 .. MaxControl
ControlPoints ==
  {<<p0, p1, p2, p3>> : p0 \in ControlValues, p1 \in ControlValues,
                        p2 \in ControlValues, p3 \in ControlValues}

NextBezier ==
  \/ PageInit
  \/ \E t \in BezierTimes, p \in ControlPoints : CubicBezierCall(t, p)

SpecBezier == InitScroll /\ [][NextBezier]_vars

TypeOK ==
  /\ pc \in {"start", "ready"}
  /\ visible \subseteq Panels
  /\ previous \subseteq Panels
  /\ next \subseteq Panels
  /\ selected \subseteq Buttons
  /\ historyLength \in 0 .. MaxHistory
  /\ isLoaded \subseteq Controllers
  /\ isKeyDown \in BOOLEAN

\* ---------------------------------------------------------------- claims
\* the panels of the last togglePanelVisibility call
LastSource == getElementById(last.call.from)
LastTarget == getElementById(last.call.to)

\* the last call was made with two different ids that both name a panel
LastRan ==
  /\ last.call.outcome \notin {"none", "noop"}
  /\ LastSource # NoElement
  /\ LastTarget # NoElement

\* number of calls of method on obj made by the last handler
CallCount(method, obj) ==
  Cardinality({i \in 1 .. Len(calls) : calls[i] = <<method, obj>>})

Classes == <<visible, previous, next>>
Pointer == <<previousPanelId, currentPanelId>>

\* C1: in a document that starts with exactly one visible panel, exactly one
\* panel carries `visible` in every reachable state, and after a completed
\* transition it is the target panel.
C1_ExactlyOneVisible ==
  (startVisible # NoElement) =>
     /\ Cardinality(visible) = 1
     /\ (last.call.outcome = "completed" => visible = {LastTarget})

C1_Witness ==
  /\ startVisible # NoElement
  /\ last.event = "keydown"
  /\ last.call.outcome = "completed"
  /\ historyLength >= 2

\* C2: togglePanelVisibility(x, x) changes neither the pointer, isKeyDown,
\* any panel class, the URL nor the history length, and calls no controller.
C2_SameIdIsNoOp ==
  [][(last'.event = "call" /\ last'.call.from = last'.call.to) =>
        /\ UNCHANGED <<Pointer, Classes, isKeyDown, urlPanel, historyLength,
                       isLoaded, initCount>>
        /\ calls' = <<>>
        /\ raised' = "none"]_vars

C2_Witness ==
  /\ last.event = "call"
  /\ last.call.from = last.call.to
  /\ last.call.from = "p1"
  /\ visible = {1}
  /\ historyLength >= 1

\* C3: after a completed transition, a source with the lower order index
\* leaves both panels `previous` and not `next`; a source with the higher
\* index leaves both `next` and not `previous` (integer comparison).
C3_DirectionByIndex ==
  last.call.outcome = "completed" =>
     /\ (LastSource < LastTarget =>
           /\ {LastSource, LastTarget} \subseteq previous
           /\ {LastSource, LastTarget} \cap next = {})
     /\ (LastSource > LastTarget =>
           /\ {LastSource, LastTarget} \subseteq next
           /\ {LastSource, LastTarget} \cap previous = {})

\* C4 as stated: a transition whose source id names no element pushes no
\* history entry and leaves the URL and every panel class as they were.
C4_AbortPushesNothing ==
  [][last'.call.outcome = "aborted" =>
        UNCHANGED <<historyLength, urlPanel, Classes>>]_vars

\* C4 amended: a transition whose source id names no element has set the
\* pointer, pushed one history entry and set the URL parameter to the
\* target id; it changes no panel class and calls no controller.
C4_AbortAfterPush ==
  [][last'.call.outcome = "aborted" =>
        /\ getElementById(last'.call.from) = NoElement
        /\ currentPanelId' = last'.call.to
        /\ previousPanelId' =
             (IF last'.call.from # "" THEN last'.call.from ELSE "root")
        /\ historyLength' = historyLength + 1
        /\ urlPanel' = last'.call.to
        /\ UNCHANGED Classes
        /\ calls' = <<>>
        /\ raised' = "none"]_vars

C4_Witness ==
  /\ last.call.outcome = "aborted"
  /\ last.call.from = "ghost"
  /\ urlPanel = last.call.to

\* C5: an unguarded Escape with both pointer ids set, the current panel
\* visible and the previous panel existing makes the previous panel the only
\* visible one and sets isKeyDown; an Escape keydown while isKeyDown is set
\* changes no class, no pointer and pushes nothing.
C5_EscapeBack ==
  [][(last'.event = "keydown" /\ last'.key = "Escape") =>
        /\ (/\ ~isKeyDown
            /\ previousPanelId # "" /\ currentPanelId # ""
            /\ visible = {getElementById(currentPanelId)}
            /\ getElementById(previousPanelId) # NoElement)
           => (/\ visible' = {getElementById(previousPanelId)}
               /\ isKeyDown')
        /\ isKeyDown => UNCHANGED <<Classes, Pointer, historyLength>>]_vars

\* C6: no error thrown by a controller's init(), show() or hide() leaves
\* togglePanelVisibility.
C6_LifecycleErrorsCaught == raised # "init"

\* C7: a completed transition out of a panel whose controller path resolves
\* calls hide() on that controller exactly once.
C7_HideOnLeave ==
  (last.call.outcome = "completed" /\ ControllerOf(LastSource) # NoObject) =>
     CallCount("hide", ControllerOf(LastSource)) = 1

\* C8: init() is invoked at most once on each controller.
C8_InitOnce == \A o \in Controllers : initCount[o] <= 1

C10_SelectedMirrorsVisible ==
  pc = "ready" =>
     \A b \in Buttons :
        (b \in selected) <=> (visible = {getElementById(ButtonTargets[b])})

\* C11: every transition call with different ids sets the URL `panel`
\* parameter to the target id and pushes exactly one history entry, so that
\* once a transition has been made the URL parameter equals currentPanelId.
C11_UrlFollowsPointer ==
  /\ [](historyLength > 0 => urlPanel = currentPanelId)
  /\ [][last'.call.outcome \notin {"none", "noop"} =>
          /\ urlPanel' = last'.call.to
          /\ historyLength' = historyLength + 1]_vars

C11_Witness ==
  /\ historyLength >= 2
  /\ last.call.outcome = "completed"
  /\ urlPanel = last.call.to
  /\ urlPanel = currentPanelId

\* C12: with a visible panel present, init with an absent URL `panel`
\* parameter, or one that names no panel, registers no load listener, raises
\* nothing and leaves the pointer, the history and the visible panel alone;
\* the load listener never starts a transition to an id that names no panel.
C12_BadParamSchedulesNothing ==
  [][((/\ last'.event = "init"
       /\ startVisible # NoElement
       /\ (urlPanel = Null \/ getElementById(urlPanel) = NoElement))
      => (/\ loadListener' = <<>>
          /\ raised' = "none"
          /\ UNCHANGED <<Pointer, historyLength, visible>>))
     /\ (last'.event = "load" =>
           getElementById(last'.call.to) # NoElement)]_vars

\* C13: init in a document without a visible panel raises nothing, registers
\* no load listener and changes no button's `selected` class, whatever the
\* URL `panel` parameter is.
C13_NoVisiblePanelSkipped ==
  [][(last'.event = "init" /\ visible = {}) =>
        /\ raised' = "none"
        /\ loadListener' = <<>>
        /\ selected' = selected]_vars

\* a number in the closed interval [0, 1]
InUnitInterval(x) == Leq(Whole(0), x) /\ Leq(x, Whole(1))

\* C14: the values published as --panel-progress and
\* --panel-progress-overscroll lie in [0, 1] for every scroll offset.
C14_ProgressInUnitInterval ==
  /\ progress # Unset => InUnitInterval(progress)
  /\ progressOverscroll # Unset => InUnitInterval(progressOverscroll)

\* C15: cubicBezier returns p0 at t = 0 and p3 at t = 1; with the controls
\* (0, 0, 0, 1) its value lies in [0, 1] and a call with a larger t never
\* returns a smaller value.
C15_BezierEndpointsMonotone ==
  /\ [](bezier # Unset =>
          /\ bezier.t = Whole(0) => bezier.value = Whole(bezier.p[1])
          /\ bezier.t = Whole(1) => bezier.value = Whole(bezier.p[4])
          /\ bezier.p = <<0, 0, 0, 1>> => InUnitInterval(bezier.value))
  /\ [][(/\ bezier # Unset
          /\ bezier' # Unset
          /\ bezier.p = <<0, 0, 0, 1>>
          /\ bezier'.p = <<0, 0, 0, 1>>
          /\ Leq(bezier.t, bezier'.t))
         => Leq(bezier.value, bezier'.value)]_vars

C15_Witness ==
  /\ last.event = "bezier"
  /\ bezier.p = <<0, 0, 0, 1>>
  /\ bezier.t = <<1, 2>>
  /\ bezier.value = <<1, 8>>

\* C16: after a completed transition from F to T, currentPanelId is T and
\* previousPanelId is T's data-previous-page-id when T declares one, else F
\* ("root" when F is the empty id).
C16_PointerAfterTransition ==
  last.call.outcome = "completed" =>
     /\ currentPanelId = last.call.to
     /\ previousPanelId =
          (IF PreviousPageId(LastTarget) # "" THEN PreviousPageId(LastTarget)
           ELSE IF last.call.from # "" THEN last.call.from
           ELSE "root")

C16_Witness ==
  /\ last.call.outcome = "completed"
  /\ last.call.from = "p1"
  /\ last.call.to = "p2"
  /\ previousPanelId = "p0"
  /\ currentPanelId = "p2"

\* C17: from the Escape keydown that ran a back transition and set the guard
\* until the keyup of Escape, no Escape keydown requests another transition.
C17_HeldEscapeFiresOnce ==
  [][(escapeKey = "fired" /\ last'.event = "keydown" /\ last'.key = "Escape")
        => last'.call = NoCall]_vars

\* C18: after an Escape keydown handled with isKeyDown false, no activation
\* button carries `selected`.
C18_EscapeClearsSelected ==
  [][(~isKeyDown /\ last'.event = "keydown" /\ last'.key = "Escape")
        => selected' = {}]_vars

\* the state one run of handlePageButtonClick for target id would leave
OneActivation(id) ==
  {HandleClick(Snapshot, b, throws).state :
     b \in ButtonsFor(id), throws \in Throws}

\* C19: a click or Enter keyup delivered to several listeners of a button
\* leaves the pointer, the panel classes, the history length and the
\* controller calls that one run of the handler leaves, and an activation
\* that follows an activation of the same target changes none of them and
\* calls no controller.
C19_DoubleActivationIsOne ==
  [][(last'.event \in {"click", "enter"} /\ last'.call # NoCall) =>
        /\ \E r \in OneActivation(last'.call.to) :
              /\ Pointer' = <<r.previousPanelId, r.currentPanelId>>
              /\ Classes' = <<r.visible, r.previous, r.next>>
              /\ historyLength' = r.historyLength
              /\ initCount' = r.initCount
              /\ calls' = r.calls
        /\ (last.event \in {"click", "enter"} /\ last.call.to = last'.call.to)
           => /\ UNCHANGED <<Pointer, Classes, selected, historyLength,
                             initCount>>
              /\ calls' = <<>>]_vars

\* C20: among the controller calls of one transition every hide() comes
\* before every init() and show(), and show() is only called on a controller
\* whose init() has been called and has set isLoaded.
C20_LifecycleOrder ==
  \A i \in 1 .. Len(calls) :
     /\ calls[i][1] = "hide" =>
           \A j \in 1 .. Len(calls) :
              calls[j][1] \in {"init", "show"} => i < j
     /\ calls[i][1] = "show" =>
           /\ initCount[calls[i][2]] >= 1
           /\ calls[i][2] \in isLoaded
           /\ \A j \in 1 .. Len(calls) : calls[j][1] = "init" => j < i

C20_Witness ==
  /\ Len(calls) = 3
  /\ calls[1][1] = "hide"
  /\ calls[2][1] = "init"
  /\ calls[3][1] = "show"
  /\ calls[2][2] = calls[3][2]

\* C21: in a document whose button targets, URL parameter and overrides name
\* panels with ids, currentPanelId is empty or the id of the one visible
\* panel in every reachable state.
C21_CurrentIsVisible ==
  currentPanelId = "" \/ visible = {getElementById(currentPanelId)}

C21_Witness ==
  /\ last.event = "load"
  /\ historyLength >= 2
  /\ currentPanelId = "p1"
  /\ visible = {1}

\* C22: an Escape keydown that requests the back transition while the pointer
\* holds two existing panels A (previous) and B (current) without overrides
\* leaves A the only visible panel and the pointer (previous = B,
\* current = A), so Escape presses alternate between A and B.
C22_BackIsSelfInverse ==
  [][(/\ last'.event = "keydown"
      /\ last'.key = "Escape"
      /\ last'.call # NoCall
      /\ getElementById(previousPanelId) # NoElement
      /\ getElementById(currentPanelId) # NoElement
      /\ PreviousPageId(getElementById(previousPanelId)) = ""
      /\ PreviousPageId(getElementById(currentPanelId)) = "")
     => /\ last'.call.from = currentPanelId
        /\ last'.call.to = previousPanelId
        /\ visible' = {getElementById(previousPanelId)}
        /\ Pointer' = <<currentPanelId, previousPanelId>>]_vars

C22_Witness ==
  /\ last.event = "keydown"
  /\ last.call = [from |-> "p0", to |-> "p1", outcome |-> "completed"]
  /\ historyLength = 3
  /\ startVisible = 0
  /\ Pointer = <<"p0", "p1">>
  /\ visible = {1}

\* C23: once init has run every panel carries exactly one of `previous` and
\* `next`, and a handler changes these classes only on the source and the
\* target of its transition and removes `visible` only from them and from
\* panels that were visible.
C23_ClassFrame ==
  /\ [](pc = "ready" =>
          \A p \in Panels : (p \in previous) # (p \in next))
  /\ [][pc = "ready" =>
          \A p \in Panels \ {getElementById(last'.call.from),
                              getElementById(last'.call.to)} :
             /\ (p \in previous') = (p \in previous)
             /\ (p \in next') = (p \in next)
             /\ (p \in visible') => (p \in visible)]_vars

C23_Witness ==
  /\ last.call.outcome = "completed"
  /\ historyLength >= 2
  /\ LastSource \in previous
  /\ LastTarget \in previous
  /\ \E p \in Panels \ {LastSource, LastTarget} : p \in previous
  /\ \E p \in Panels \ {LastSource, LastTarget} : p \in next

====
